---- MODULE Spec2Model ----
(***************************************************************************)
(* Wildlife simulation of app/src/scene/Wildlife.js: the spawner (Start),  *)
(* the per-frame behaviour loop (Update) and the procedural mesh builders. *)
(*                                                                         *)
(* Numbers are fixed point.  Lengths, positions and speeds are in          *)
(* hundredths of a unit, times in hundredths of a second, angles in        *)
(* hundredths of a radian (PI = 314).  A value of the random source is the *)
(* numerator r of r / RngMod, a scalar in [0, 1).                          *)
(***************************************************************************)
EXTENDS Integers, Sequences, FiniteSets, TLC

VARIABLES
    animals,        \* Wildlife.js:10  fish + sharks, in spawn order
    plants,         \* Wildlife.js:11  kelp placements, in spawn order
    random,         \* Wildlife.js:7   internal state of the shared Random
    wildlifeMat,    \* Wildlife.js:21  "none" until Start clones the material
    wildlifeGroup,  \* Wildlife.js:338 number of meshes added to the group
    time,           \* Time.js  elapsed time read by Update
    deltaTime,      \* Time.js  frame delta read by Update
    seaFloor,       \* SeaFloor.js  which heightfield SampleHeight samples
    halfSize,       \* SeaFloor.js  half extent of the heightfield
    starts,         \* number of Start calls made so far
    frames,         \* number of Update calls made so far
    animalsB,       \* the animals collection of a second, independent run
    plantsB,        \* the plants collection of the second run
    randomB,        \* the random source of the second run
    startsB,        \* number of Start calls of the second run
    geom,           \* the geometry a mesh builder returned last
    sampled         \* Wildlife.js:396  per creature, the SampleHeight call of the last Update

vars == <<animals, plants, random, wildlifeMat, wildlifeGroup, time, deltaTime,
          seaFloor, halfSize, starts, frames, animalsB, plantsB, randomB,
          startsB, geom, sampled>>

(***************************************************************************)
(* Bounds of the model.                                                    *)
(***************************************************************************)
MaxStarts == 2
MaxFrames == 2

(***************************************************************************)
(* Program constants (Wildlife.js:7, 14-18), lengths in hundredths.        *)
(***************************************************************************)
SEED == 42
FISH_COUNT == 80
SHARK_COUNT == 6
PLANT_COUNT == 3000
SPAWN_RADIUS == 30000
FISH_MIN_DEPTH == 500

(***************************************************************************)
(* Fixed-point helpers.                                                    *)
(***************************************************************************)
PI == 314

Abs(n) == IF n < 0 THEN -n ELSE n
Max(a, b) == IF a >= b THEN a ELSE b
Min(a, b) == IF a <= b THEN a ELSE b

\* n / d cut toward zero: keeps a half-open range half-open in either order
Trunc(n, d) == IF n >= 0 THEN n \div d ELSE -((-n) \div d)

\* n / d rounded to the nearest value of the grid, as a float operation rounds
Fix(n, d) == IF n >= 0 THEN (2 * n + d) \div (2 * d) ELSE -((2 * (-n) + d) \div (2 * d))

RECURSIVE SqrtSearch(_, _, _)
SqrtSearch(n, lo, hi) ==
    IF hi - lo <= 1 THEN lo
    ELSE LET mid == (lo + hi) \div 2
         IN  IF mid * mid <= n THEN SqrtSearch(n, mid, hi) ELSE SqrtSearch(n, lo, mid)

\* Math.sqrt on the grid: the largest k with k * k <= n, for 0 <= n < 2^30
Sqrt(n) == SqrtSearch(n, 0, 32768)

\* cosine on [-PI/2, PI/2], times 100
CosCore(r) == Fix(100 * (PI * PI - 4 * r * r), PI * PI + r * r)

\* an angle reduced to (-PI, PI]
WrapAngle(a) ==
    LET m == a % (2 * PI)
    IN  IF m > PI THEN m - 2 * PI ELSE m

\* Math.cos and Math.sin of an angle in hundredths of a radian, times 100
Cos(a) ==
    LET r == Abs(WrapAngle(a))
    IN  IF 2 * r <= PI THEN CosCore(r) ELSE -CosCore(PI - r)

Sin(a) == Cos(a - PI \div 2)

\* arctangent of q / 1000 for 0 <= q <= 1000, in hundredths of a radian
AtanCore(q) == Fix(q * (10584 - Fix(273 * q, 100)), 100000)

\* Math.atan2(y, x), in hundredths of a radian
Atan2(y, x) ==
    LET ax == Abs(x)
        ay == Abs(y)
        a  == IF ax = 0 /\ ay = 0 THEN 0
              ELSE IF ay <= ax THEN AtanCore(Fix(1000 * ay, ax))
              ELSE PI \div 2 - AtanCore(Fix(1000 * ax, ay))
        s  == IF y < 0 THEN -1 ELSE 1
    IN  IF x >= 0 THEN s * a ELSE s * (PI - a)

(***************************************************************************)
(* The random source (scripts/Random.js): a seeded generator whose Next()  *)
(* advances the state and returns a scalar in [0, 1).  The state is a      *)
(* residue mod RngMod advanced by a fixed odd step; the value returned is  *)
(* the new state over RngMod.                                              *)
(***************************************************************************)
RngMod == 4096
RngStep == 2531

RandomNew(seed) == seed % RngMod
RandomNext(s) == (s + RngStep) % RngMod
\* the state after k calls of Next()
RandomAfter(s, k) == (s + k * RngStep) % RngMod

\* a generator that also reads the clock
rngClock(s, k) == (RandomAfter(s, k) + time) % RngMod

\* Wildlife.js:24  the value the k-th rng() call returns from state s
rng(s, k) == RandomAfter(s, k)

\* Wildlife.js:25  a + r * (b - a) for the drawn value r
rngRange(a, b, r) == a + Trunc(r * (b - a), RngMod)

\* the next n values of the generator in state s
Draws(s, n) == [k \in 1..n |-> rng(s, k)]

(***************************************************************************)
(* The seafloor (scene/SeaFloor.js): SampleHeight is a pure function of    *)
(* the grid position, valid for gx, gz in [0, 2 * halfSize].               *)
(***************************************************************************)
SeaFloors == {"deep", "surface", "shelf", "cliff"}
HalfSizes == {30000, 51200}

SampleHeightOf(shape, hs, gx, gz) ==
    CASE shape = "deep"    -> -10000
      [] shape = "surface" -> 0
      [] shape = "shelf"   -> IF gx < hs THEN -10000 ELSE -600
      [] shape = "cliff"   -> IF gz < hs THEN -10000 ELSE -4000

SampleHeight(gx, gz) == SampleHeightOf(seaFloor, halfSize, gx, gz)

\* Wildlife.js:27-32
clampToFloor(x, z, minAbove) ==
    LET gx == x + halfSize
        gz == z + halfSize
        floor == SampleHeight(gx, gz)
    IN  Max(floor + minAbove, floor + 200)

(***************************************************************************)
(* Creature (Wildlife.js:249-274).  The mesh is kept as the length its     *)
(* geometry was built from, its position and its rotation.  d holds the    *)
(* three values the constructor draws: wanderAngle, wanderTimer and the    *)
(* vertical part of the initial direction.                                 *)
(***************************************************************************)
Creature(length, pos, speed, turnSpeed, isShark, boundingRadius, d) ==
    LET wanderAngle == Trunc(d[1] * 2 * PI, RngMod)
        wanderTimer == Trunc(d[2] * 300, RngMod)
        dx  == Cos(wanderAngle)
        dy  == rngRange(-10, 10, d[3])
        dz  == Sin(wanderAngle)
        len == Sqrt(dx * dx + dy * dy + dz * dz)
        n   == IF len = 0 THEN 1 ELSE len
    IN  [ length |-> length, x |-> pos[1], y |-> pos[2], z |-> pos[3],
          rotX |-> 0, rotY |-> 0, rotZ |-> 0,
          vx |-> Fix(dx * speed, n), vy |-> Fix(dy * speed, n), vz |-> Fix(dz * speed, n),
          speed |-> speed, turnSpeed |-> turnSpeed,
          wanderAngle |-> wanderAngle, wanderTimer |-> wanderTimer,
          isShark |-> isShark, boundingRadius |-> boundingRadius ]

\* a fish placed up to 40 above its clearance height, the depth cap left out
FishHeightNoCap(floorY, r) == rngRange(floorY, floorY + 4000, r)

\* Wildlife.js:288  the height a fish is placed at over clearance height floorY
FishHeight(floorY, r) == rngRange(floorY, Min(-FISH_MIN_DEPTH, floorY + 4000), r)

\* Wildlife.js:305
SharkHeight(floorY, r) == rngRange(floorY, Min(-1000, floorY + 6000), r)

\* Wildlife.js:280-295  d holds the nine values spawnFish draws, in call order
spawnFish(d) ==
    LET length == rngRange(40, 120, d[1])
        x == rngRange(-SPAWN_RADIUS, SPAWN_RADIUS, d[2])
        z == rngRange(-SPAWN_RADIUS, SPAWN_RADIUS, d[3])
        floorY == clampToFloor(x, z, 300)
        y == FishHeight(floorY, d[4])
    IN  Creature(length, <<x, y, z>>, rngRange(200, 600, d[5]), rngRange(150, 300, d[6]),
                 FALSE, Fix(length * 7, 10), <<d[7], d[8], d[9]>>)

\* Wildlife.js:297-312
spawnShark(d) ==
    LET length == rngRange(300, 600, d[1])
        x == rngRange(-SPAWN_RADIUS, SPAWN_RADIUS, d[2])
        z == rngRange(-SPAWN_RADIUS, SPAWN_RADIUS, d[3])
        floorY == clampToFloor(x, z, 500)
        y == SharkHeight(floorY, d[4])
    IN  Creature(length, <<x, y, z>>, rngRange(300, 700, d[5]), rngRange(80, 150, d[6]),
                 TRUE, Fix(length * 6, 10), <<d[7], d[8], d[9]>>)

\* Wildlife.js:314-332  d holds the five values spawnPlant draws
spawnPlant(d) ==
    LET height == rngRange(200, 1000, d[1])
        width == rngRange(30, 100, d[2])
        x == rngRange(-SPAWN_RADIUS, SPAWN_RADIUS, d[3])
        z == rngRange(-SPAWN_RADIUS, SPAWN_RADIUS, d[4])
        floorY == SampleHeight(x + halfSize, z + halfSize)
    IN  [ height |-> height, width |-> width, x |-> x, y |-> floorY, z |-> z,
          rotX |-> 0, rotY |-> Trunc(d[5] * 2 * PI, RngMod), rotZ |-> 0 ]

CreatureDraws == 9
PlantDraws == 5

\* the shark loop running once too often
SpawnedAnimalsOneMore(s) ==
    [ i \in 1..(FISH_COUNT + SHARK_COUNT + 1) |->
        IF i <= FISH_COUNT
        THEN spawnFish(Draws(RandomAfter(s, CreatureDraws * (i - 1)), CreatureDraws))
        ELSE spawnShark(Draws(RandomAfter(s, CreatureDraws * (i - 1)), CreatureDraws)) ]

\* Wildlife.js:346-352  the creatures one Start appends, drawing from state s
SpawnedAnimals(s) ==
    [ i \in 1..(FISH_COUNT + SHARK_COUNT) |->
        IF i <= FISH_COUNT
        THEN spawnFish(Draws(RandomAfter(s, CreatureDraws * (i - 1)), CreatureDraws))
        ELSE spawnShark(Draws(RandomAfter(s, CreatureDraws * (i - 1)), CreatureDraws)) ]

\* Wildlife.js:354-356  the plants one Start appends after the creatures
SpawnedPlants(s) ==
    LET s0 == RandomAfter(s, CreatureDraws * (FISH_COUNT + SHARK_COUNT))
    IN  [ i \in 1..PLANT_COUNT |->
            spawnPlant(Draws(RandomAfter(s0, PlantDraws * (i - 1)), PlantDraws)) ]

StartDraws == CreatureDraws * (FISH_COUNT + SHARK_COUNT) + PlantDraws * PLANT_COUNT

\* Wildlife.js:340-357
Start ==
    /\ wildlifeMat' = "clone"
    /\ animals' = animals \o SpawnedAnimals(random)
    /\ plants' = plants \o SpawnedPlants(random)
    /\ random' = RandomAfter(random, StartDraws)
    /\ wildlifeGroup' = wildlifeGroup + FISH_COUNT + SHARK_COUNT + PLANT_COUNT
    /\ starts' = starts + 1
    /\ UNCHANGED <<time, deltaTime, seaFloor, halfSize, frames,
                   animalsB, plantsB, randomB, startsB, geom, sampled>>

(***************************************************************************)
(* Update (Wildlife.js:359-423).                                           *)
(***************************************************************************)
\* the frame deltas the host hands to Update, in hundredths of a second
DtValues == {0, 10, 40}

\* the timer test written with < in place of <=
ExpiredStrict(c, dt) == c.wanderTimer - dt < 0

\* the largest frame delta of the model
MaxDt == CHOOSE d \in DtValues : \A e \in DtValues : e <= d

\* Wildlife.js:368-369  the wander timer runs out in a frame of length dt
Expired(c, dt) == c.wanderTimer - dt <= 0

\* the boundary tests with the z tests before the x tests
KeepWithinBoundsXLast(x, z, a) ==
    LET a1 == IF z > SPAWN_RADIUS THEN -(PI \div 2) ELSE a
        a2 == IF z < -SPAWN_RADIUS THEN PI \div 2 ELSE a1
        a3 == IF x > SPAWN_RADIUS THEN PI ELSE a2
        a4 == IF x < -SPAWN_RADIUS THEN 0 ELSE a3
    IN  a4

\* Wildlife.js:384-387  the four boundary tests, in order, on heading a
KeepWithinBounds(x, z, a) ==
    LET a1 == IF x > SPAWN_RADIUS THEN PI ELSE a
        a2 == IF x < -SPAWN_RADIUS THEN 0 ELSE a1
        a3 == IF z > SPAWN_RADIUS THEN -(PI \div 2) ELSE a2
        a4 == IF z < -SPAWN_RADIUS THEN PI \div 2 ELSE a3
    IN  a4

\* Wildlife.js:390  the depth ceiling
KeepUnderwater(y, vy) == IF y > -FISH_MIN_DEPTH THEN -Abs(vy) - 50 ELSE vy

\* a heightfield guard that tests the lower edges only
InDomainLowerOnly(gx, gz) == gx > 0 /\ gz > 0

\* Wildlife.js:395  the heightfield holds the grid position
InDomain(gx, gz) == gx > 0 /\ gx < halfSize * 2 /\ gz > 0 /\ gz < halfSize * 2

\* Wildlife.js:393-396  the SampleHeight call the floor step makes for
\* creature c: its arguments <<gx, gz>>, or <<>> when the guard skips the call
SampleCall(c) ==
    LET gx == c.x + halfSize
        gz == c.z + halfSize
    IN  IF InDomain(gx, gz) THEN <<gx, gz>> ELSE <<>>

\* Wildlife.js:363-398  the SampleHeight calls of one pass over collection as
SampleCalls(as) == [ i \in 1..Len(as) |-> SampleCall(as[i]) ]

\* Wildlife.js:393-398  the floor clearance
KeepAboveFloor(x, y, z, vy) ==
    LET gx == x + halfSize
        gz == z + halfSize
    IN  IF InDomain(gx, gz) /\ y < SampleHeight(gx, gz) + 200 THEN Abs(vy) + 50 ELSE vy

\* Wildlife.js:364-414  one pass of the loop body for creature c at loop
\* index i (from 0); d holds the three values drawn when the timer runs out
UpdateCreature(c, i, dt, t, d) ==
    LET expired == Expired(c, dt)
        angle1  == IF expired THEN c.wanderAngle + rngRange(-150, 150, d[1]) ELSE c.wanderAngle
        timer   == IF expired THEN rngRange(150, 400, d[2]) ELSE c.wanderTimer - dt
        vy1     == IF expired THEN Fix(rngRange(-30, 30, d[3]) * c.speed, 100) ELSE c.vy
        targetX == Fix(Cos(angle1) * c.speed, 100)
        targetZ == Fix(Sin(angle1) * c.speed, 100)
        vx      == c.vx + Fix((targetX - c.vx) * c.turnSpeed * dt, 10000)
        vz      == c.vz + Fix((targetZ - c.vz) * c.turnSpeed * dt, 10000)
        angle2  == KeepWithinBounds(c.x, c.z, angle1)
        vy2     == KeepUnderwater(c.y, vy1)
        vy      == KeepAboveFloor(c.x, c.y, c.z, vy2)
        hVel    == Sqrt(vx * vx + vz * vz)
    IN  [ c EXCEPT !.wanderAngle = angle2, !.wanderTimer = timer,
                   !.vx = vx, !.vy = vy, !.vz = vz,
                   !.x = c.x + Fix(vx * dt, 100),
                   !.y = c.y + Fix(vy * dt, 100),
                   !.z = c.z + Fix(vz * dt, 100),
                   !.rotY = IF hVel > 10 THEN Atan2(vx, vz) ELSE c.rotY,
                   !.rotX = Fix(Atan2(vy, hVel) * 3, 10),
                   !.rotZ = Fix(Sin(t * (IF c.isShark THEN 3 ELSE 8) + 100 * i) * 5, 100) ]

\* the place of creature i in the processing order ord
PlaceOf(ord, i) == CHOOSE p \in 1..Len(ord) : ord[p] = i

\* every creature drawing its three values, its timer run out or not
DrawsBeforeEvery(as, ord, p, dt) == 3 * (p - 1)

\* the number of rng() calls made before the creature at place p is processed
DrawsBefore(as, ord, p, dt) ==
    3 * Cardinality({q \in 1..(p - 1) : Expired(as[ord[q]], dt)})

\* Wildlife.js:363-415  the creature loop over collection as, taking the
\* creatures in the order ord and drawing from generator state s
UpdateAnimals(as, ord, s, dt, t) ==
    [ i \in 1..Len(as) |->
        UpdateCreature(as[i], i - 1, dt, t,
                       Draws(RandomAfter(s, DrawsBefore(as, ord, PlaceOf(ord, i), dt)), 3)) ]

\* Wildlife.js:363  the order of the for loop
LoopOrder(n) == [i \in 1..n |-> i]

\* Wildlife.js:418-422  kelp sway
UpdatePlants(ps, t) ==
    [ i \in 1..Len(ps) |->
        [ ps[i] EXCEPT !.rotZ = Fix(Sin(Fix(t, 2) + 70 * (i - 1)) * 8, 100),
                       !.rotX = Fix(Cos(Fix(3 * t, 10) + 110 * (i - 1)) * 4, 100) ] ]

\* Wildlife.js:359-423  one frame: the host has advanced the clock by dt
Update ==
    /\ \E dt \in DtValues :
         /\ deltaTime' = dt
         /\ time' = time + dt
         /\ animals' = UpdateAnimals(animals, LoopOrder(Len(animals)), random, dt, time + dt)
         /\ random' = RandomAfter(random, DrawsBefore(animals, LoopOrder(Len(animals)),
                                                     Len(animals) + 1, dt))
         /\ plants' = UpdatePlants(plants, time + dt)
    /\ sampled' = SampleCalls(animals)
    /\ frames' = frames + 1
    /\ UNCHANGED <<wildlifeMat, wildlifeGroup, seaFloor, halfSize, starts,
                   animalsB, plantsB, randomB, startsB, geom>>

(***************************************************************************)
(* The program: the module is loaded (empty collections, the generator     *)
(* seeded), then the host calls Start and, every frame, Update.            *)
(***************************************************************************)
Init ==
    /\ animals = <<>>
    /\ plants = <<>>
    /\ random = RandomNew(SEED)
    /\ wildlifeMat = "none"
    /\ wildlifeGroup = 0
    /\ time = 0
    /\ deltaTime = 0
    /\ seaFloor \in SeaFloors
    /\ halfSize \in HalfSizes
    /\ starts = 0
    /\ frames = 0
    /\ animalsB = <<>>
    /\ plantsB = <<>>
    /\ randomB = RandomNew(SEED)
    /\ startsB = 0
    /\ geom = [vertices |-> <<>>, indices |-> <<>>, normals |-> <<>>]
    /\ sampled = <<>>

Next ==
    \/ starts < MaxStarts /\ Start
    \/ frames < MaxFrames /\ Update

Spec == Init /\ [][Next]_vars

(***************************************************************************)
(* The behaviour loop on a small population.  The collections are what     *)
(* Start builds with the counts of FrameKinds and FramePlantDraws, each    *)
(* entity spawned by the spawn functions from values the generator may     *)
(* return: a fish heading out of the east, west, north or south side or    *)
(* out of a corner of the spawn square, a fish about to cross the edge of  *)
(* a cliff, timers that are about to run out and timers that are not.      *)
(* Each tuple lists the nine draws of a spawn in call order: length, x, z, *)
(* y, speed, turnSpeed, wanderAngle, wanderTimer, vertical direction.      *)
(***************************************************************************)
FrameSteps == 2

FrameKinds == <<FALSE, FALSE, TRUE>>

FishDraws ==
    { <<0, 4095, 2048, 2048, 4095, 0, 0, 4095, 2048>>,
      <<2048, 4095, 4095, 0, 4095, 4095, 512, 0, 0>>,
      <<4095, 0, 0, 4095, 2048, 2048, 2560, 1000, 4095>>,
      <<2048, 2048, 2047, 4095, 4095, 2048, 1024, 0, 4095>>,
      <<1000, 0, 2048, 1000, 0, 4095, 2048, 2000, 1000>>,
      <<3000, 2048, 0, 3000, 3000, 1000, 3072, 100, 3000>>,
      <<500, 1024, 4095, 4000, 4095, 3000, 1024, 600, 2048>> }

SharkDraws ==
    { <<2048, 4095, 1000, 2048, 4095, 0, 0, 0, 2048>>,
      <<0, 1000, 3000, 4095, 0, 4095, 3000, 4095, 0>> }

FramePlantDraws == << <<0, 0, 2048, 2048, 0>>, <<4095, 4095, 100, 4000, 1024>> >>

FrameSeeds == {RandomNew(SEED), RandomNew(SEED + 2000)}

InitFrame ==
    /\ seaFloor \in SeaFloors
    /\ halfSize \in HalfSizes
    /\ random \in FrameSeeds
    /\ \E ds \in [1..Len(FrameKinds) -> FishDraws \cup SharkDraws] :
         /\ \A i \in 1..Len(FrameKinds) :
              ds[i] \in (IF FrameKinds[i] THEN SharkDraws ELSE FishDraws)
         /\ animals = [ i \in 1..Len(FrameKinds) |->
                          IF FrameKinds[i] THEN spawnShark(ds[i]) ELSE spawnFish(ds[i]) ]
    /\ plants = [ i \in 1..Len(FramePlantDraws) |-> spawnPlant(FramePlantDraws[i]) ]
    /\ wildlifeMat = "clone"
    /\ wildlifeGroup = Len(FrameKinds) + Len(FramePlantDraws)
    /\ time = 0
    /\ deltaTime = 0
    /\ starts = 1
    /\ frames = 0
    /\ animalsB = <<>>
    /\ plantsB = <<>>
    /\ randomB = random
    /\ startsB = 0
    /\ geom = [vertices |-> <<>>, indices |-> <<>>, normals |-> <<>>]
    /\ sampled = <<>>

NextFrame == frames < FrameSteps /\ Update

SpecFrame == InitFrame /\ [][NextFrame]_vars


(***************************************************************************)
(* Procedural geometry builders (Wildlife.js:38-243).  A shape table holds *)
(* the multipliers of hl, hh and hw of every vertex, in hundredths; a      *)
(* vertex is kept as 200 times its position, which is a whole number.      *)
(***************************************************************************)
\* Wildlife.js:43-82
FishShape ==
    << <<140, 0, 0>>, <<50, 80, 0>>, <<50, -60, 0>>, <<50, 0, 70>>,
       <<50, 0, -70>>, <<0, 100, 0>>, <<0, -80, 0>>, <<0, 0, 100>>,
       <<0, 0, -100>>, <<-50, 60, 0>>, <<-50, -50, 0>>, <<-50, 0, 50>>,
       <<-50, 0, -50>>, <<-90, 0, 0>>, <<-150, 90, 0>>, <<-150, -70, 0>>,
       <<10, -70, 180>>, <<10, -70, -180>>, <<-10, 140, 0>> >>

\* Wildlife.js:84-111
FishIndices ==
    << 0, 1, 3, 0, 4, 1, 0, 3, 2, 0, 2, 4, 1, 5, 7, 1, 7, 3,
       1, 8, 5, 1, 4, 8, 2, 7, 6, 2, 3, 7, 2, 6, 8, 2, 8, 4,
       5, 9, 11, 5, 11, 7, 5, 12, 9, 5, 8, 12, 6, 11, 10, 6, 7, 11,
       6, 10, 12, 6, 12, 8, 9, 13, 11, 9, 12, 13, 10, 11, 13, 10, 13, 12,
       13, 14, 15, 13, 15, 14, 6, 16, 7, 7, 16, 6, 6, 8, 17, 8, 6, 17,
       5, 18, 9, 9, 18, 5 >>

\* Wildlife.js:125-170
SharkShape ==
    << <<150, -15, 0>>, <<60, 70, 0>>, <<60, -60, 0>>, <<60, 0, 80>>,
       <<60, 0, -80>>, <<0, 100, 0>>, <<0, -70, 0>>, <<0, -10, 100>>,
       <<0, -10, -100>>, <<-55, 60, 0>>, <<-55, -40, 0>>, <<-55, 0, 45>>,
       <<-55, 0, -45>>, <<-100, 0, 0>>, <<-165, 140, 0>>, <<-140, -50, 0>>,
       <<5, 220, 0>>, <<-35, 80, 0>>, <<15, -70, 220>>, <<15, -70, -220>>,
       <<5, -55, 90>>, <<5, -55, -90>> >>

\* Wildlife.js:172-200
SharkIndices ==
    << 0, 1, 3, 0, 4, 1, 0, 3, 2, 0, 2, 4, 1, 5, 7, 1, 7, 3,
       1, 8, 5, 1, 4, 8, 2, 7, 6, 2, 3, 7, 2, 6, 8, 2, 8, 4,
       5, 9, 11, 5, 11, 7, 5, 12, 9, 5, 8, 12, 6, 11, 10, 6, 7, 11,
       6, 10, 12, 6, 12, 8, 9, 13, 11, 9, 12, 13, 10, 11, 13, 10, 13, 12,
       13, 14, 15, 13, 15, 14, 5, 16, 17, 17, 16, 5, 6, 18, 20, 20, 18, 6,
       6, 21, 19, 19, 21, 6 >>

Sub(p, q) == <<p[1] - q[1], p[2] - q[2], p[3] - q[3]>>
Add(p, q) == <<p[1] + q[1], p[2] + q[2], p[3] + q[3]>>
Cross(p, q) ==
    <<p[2] * q[3] - p[3] * q[2], p[3] * q[1] - p[1] * q[3], p[1] * q[2] - p[2] * q[1]>>

\* the vertex (from 1) at corner k of triangle t of an index list
Corner(indices, t, k) == indices[3 * (t - 1) + k] + 1

\* BufferGeometry.computeVertexNormals: the face normal (pC - pB) x (pA - pB)
FaceNormal(vertices, indices, t) ==
    LET pA == vertices[Corner(indices, t, 1)]
        pB == vertices[Corner(indices, t, 2)]
        pC == vertices[Corner(indices, t, 3)]
    IN  Cross(Sub(pC, pB), Sub(pA, pB))

RECURSIVE SumFaceNormals(_, _, _, _)
\* the sum of the face normals of the triangles 1..t that use vertex v
SumFaceNormals(faces, indices, v, t) ==
    IF t = 0 THEN <<0, 0, 0>>
    ELSE LET rest == SumFaceNormals(faces, indices, v, t - 1)
         IN  IF v \in {Corner(indices, t, 1), Corner(indices, t, 2), Corner(indices, t, 3)}
             THEN Add(rest, faces[t])
             ELSE rest

\* BufferGeometry.computeVertexNormals (Wildlife.js:116, 205, 241): every
\* vertex gets the sum of the face normals of its triangles, then normalised;
\* normalising keeps the direction and leaves a zero sum zero, and the sum is
\* what is kept here
computeVertexNormals(vertices, indices) ==
    LET faces == [ t \in 1..(Len(indices) \div 3) |-> FaceNormal(vertices, indices, t) ]
    IN  [ v \in 1..Len(vertices) |->
            SumFaceNormals(faces, indices, v, Len(indices) \div 3) ]

\* the geometry of a vertex list and an index list
Geometry(vertices, indices) ==
    [ vertices |-> vertices, indices |-> indices,
      normals |-> computeVertexNormals(vertices, indices) ]

\* Wildlife.js:38-118
buildFishGeometry(length, height, width) ==
    Geometry([ v \in 1..Len(FishShape) |->
                 <<FishShape[v][1] * length, FishShape[v][2] * height,
                   FishShape[v][3] * width>> ],
             FishIndices)

\* Wildlife.js:120-207
buildSharkGeometry(length, height, width) ==
    Geometry([ v \in 1..Len(SharkShape) |->
                 <<SharkShape[v][1] * length, SharkShape[v][2] * height,
                   SharkShape[v][3] * width>> ],
             SharkIndices)

\* Wildlife.js:211
KelpSegments == 7

\* Wildlife.js:216-224  vertex 2i + 1 is the left end and 2i + 2 the right end
\* of rung i; a vertex is kept as 1400 times its position
KelpVertex(k, height, width) ==
    LET i == (k - 1) \div 2
        sway == 7 * Sin(100 * i) * width
        w == 10 * (70 - 6 * i) * width
    IN  <<(IF k % 2 = 1 THEN -w ELSE w) + sway, 200 * i * height, 0>>

\* Wildlife.js:226-236  the four triangles of segment i (from 0)
KelpSegmentIndices(i) ==
    LET bl == i * 2
        br == i * 2 + 1
        tl == (i + 1) * 2
        tr == (i + 1) * 2 + 1
    IN  <<bl, br, tl, br, tr, tl, tl, br, bl, tl, tr, br>>

\* Wildlife.js:209-243
buildKelpGeometry(height, width) ==
    Geometry([ k \in 1..(2 * (KelpSegments + 1)) |-> KelpVertex(k, height, width) ],
             [ j \in 1..(12 * KelpSegments) |->
                 KelpSegmentIndices((j - 1) \div 12)[((j - 1) % 12) + 1] ])

(***************************************************************************)
(* The mesh builders on their own: each is called with dimensions from     *)
(* 1..MeshDim and the geometry it returns is kept.                         *)
(***************************************************************************)
MeshDim == 4

BuildFish ==
    /\ \E l, h, w \in 1..MeshDim : geom' = buildFishGeometry(l, h, w)
    /\ UNCHANGED <<animals, plants, random, wildlifeMat, wildlifeGroup, time, deltaTime,
                   seaFloor, halfSize, starts, frames, animalsB, plantsB, randomB, startsB,
                   sampled>>

BuildShark ==
    /\ \E l, h, w \in 1..MeshDim : geom' = buildSharkGeometry(l, h, w)
    /\ UNCHANGED <<animals, plants, random, wildlifeMat, wildlifeGroup, time, deltaTime,
                   seaFloor, halfSize, starts, frames, animalsB, plantsB, randomB, startsB,
                   sampled>>

BuildKelp ==
    /\ \E h, w \in 1..MeshDim : geom' = buildKelpGeometry(h, w)
    /\ UNCHANGED <<animals, plants, random, wildlifeMat, wildlifeGroup, time, deltaTime,
                   seaFloor, halfSize, starts, frames, animalsB, plantsB, randomB, startsB,
                   sampled>>

InitMesh == Init /\ seaFloor = "deep" /\ halfSize = 30000

NextMesh == BuildFish \/ BuildShark \/ BuildKelp

SpecMesh == InitMesh /\ [][NextMesh]_vars

(***************************************************************************)
(* Two runs of the program side by side: both load the module with the     *)
(* same seed over the same seafloor, each calls Start when its host does,  *)
(* and the clock of Time.js runs on between the calls.                     *)
(***************************************************************************)
PairSeeds == {SEED, SEED + 1, SEED + 1000, SEED + 2000}

\* Wildlife.js:340-357  Start of the second run
StartB ==
    /\ animalsB' = animalsB \o SpawnedAnimals(randomB)
    /\ plantsB' = plantsB \o SpawnedPlants(randomB)
    /\ randomB' = RandomAfter(randomB, StartDraws)
    /\ startsB' = startsB + 1
    /\ UNCHANGED <<animals, plants, random, wildlifeMat, wildlifeGroup, time, deltaTime,
                   seaFloor, halfSize, starts, frames, geom, sampled>>

\* scripts/Time.js  the host advances the clock by one frame
Tick ==
    /\ \E dt \in DtValues \ {0} : deltaTime' = dt /\ time' = time + dt
    /\ UNCHANGED <<animals, plants, random, wildlifeMat, wildlifeGroup,
                   seaFloor, halfSize, starts, frames, animalsB, plantsB, randomB,
                   startsB, geom, sampled>>

MaxTicks == 2

InitPair ==
    /\ \E seed \in PairSeeds : random = RandomNew(seed) /\ randomB = RandomNew(seed)
    /\ animals = <<>> /\ plants = <<>> /\ animalsB = <<>> /\ plantsB = <<>>
    /\ wildlifeMat = "none" /\ wildlifeGroup = 0
    /\ time = 0 /\ deltaTime = 0
    /\ seaFloor \in SeaFloors
    /\ halfSize \in HalfSizes
    /\ starts = 0 /\ startsB = 0 /\ frames = 0
    /\ geom = [vertices |-> <<>>, indices |-> <<>>, normals |-> <<>>]
    /\ sampled = <<>>

NextPair ==
    \/ starts < 1 /\ Start
    \/ startsB < 1 /\ StartB
    \/ time < MaxTicks * MaxDt /\ Tick

SpecPair == InitPair /\ [][NextPair]_vars

(***************************************************************************)
(* Claims.                                                                 *)
(***************************************************************************)
\* the seafloor height under a creature or plant
FloorUnder(c) == SampleHeightOf(seaFloor, halfSize, c.x + halfSize, c.z + halfSize)

\* the horizontal position lies inside the heightfield domain [0, 2 * halfSize]
OverHeightfield(c) ==
    /\ c.x + halfSize >= 0 /\ c.x + halfSize <= 2 * halfSize
    /\ c.z + halfSize >= 0 /\ c.z + halfSize <= 2 * halfSize

\* the distance a creature moves in one frame of the largest delta, rounded up
FrameMove(c) == ((Sqrt(c.vx * c.vx + c.vy * c.vy + c.vz * c.vz) + 1) * MaxDt) \div 100 + 1

\* C1: every creature over the heightfield is no lower than the seafloor
\* under it plus 2, less one frame's move, after Start and after every Update.
C1_FloorClearance ==
    \A i \in 1..Len(animals) :
        OverHeightfield(animals[i]) =>
            animals[i].y >= FloorUnder(animals[i]) + 200 - FrameMove(animals[i])

\* C2: no creature is ever above the minimum-depth ceiling, 5 below the
\* surface, after Start and after every Update.
C2_DepthCeiling == \A i \in 1..Len(animals) : animals[i].y <= -500

CreatureIdentity(c) ==
    [ c EXCEPT !.x = 0, !.y = 0, !.z = 0, !.rotX = 0, !.rotY = 0, !.rotZ = 0,
               !.vx = 0, !.vy = 0, !.vz = 0, !.wanderAngle = 0, !.wanderTimer = 0 ]

\* a plant with the fields Update writes blanked
PlantIdentity(p) == [ p EXCEPT !.rotX = 0, !.rotZ = 0 ]

\* the sizes and the fish-then-sharks layout of the collections after k Starts
C7_Population ==
    /\ Len(animals) = 86 * starts
    /\ Len(plants) = 3000 * starts
    /\ \A i \in 1..Len(animals) : animals[i].isShark = (((i - 1) % 86) >= 80)
    /\ (starts = 1 => Len(animals) + Len(plants) <= 3086)

\* C7: after k Start calls the animals collection holds 86 * k creatures,
\* per Start 80 fish then 6 sharks, and the plants collection 3000 * k plants,
\* one Start giving at most 3086 entities; an Update leaves the length of
\* both collections and the identity of every element as they were.
C7_EntityPopulation ==
    /\ C7_Population
    /\ [][/\ C7_Population'
          /\ frames' = frames + 1 =>
                /\ Len(animals') = Len(animals)
                /\ Len(plants') = Len(plants)
                /\ \A i \in 1..Len(animals) :
                       CreatureIdentity(animals'[i]) = CreatureIdentity(animals[i])
                /\ \A i \in 1..Len(plants) :
                       PlantIdentity(plants'[i]) = PlantIdentity(plants[i])]_vars

\* C7 witness: two Start calls with an Update between or after them
C7_Witness == starts = 2 /\ frames >= 1 /\ Len(animals) = 172 /\ Len(plants) = 6000


\* C3: after every Update every creature is within SPAWN_RADIUS plus one
\* frame's overshoot, speed * dt, on both horizontal axes.
C3_HorizontalContainment ==
    frames >= 1 =>
        \A i \in 1..Len(animals) :
            LET eps == (animals[i].speed * MaxDt) \div 100 + 1
            IN  /\ Abs(animals[i].x) <= SPAWN_RADIUS + eps
                /\ Abs(animals[i].z) <= SPAWN_RADIUS + eps

\* what C4 compares of a creature: wanderAngle, wanderTimer, velocity, position
Behaviour(c) == <<c.wanderAngle, c.wanderTimer, c.vx, c.vy, c.vz, c.x, c.y, c.z>>

\* the orders in which one frame can take the creatures
Orders == Permutations(1..Len(animals))

\* the creatures after a frame of length dt that takes them in order ord
FrameResult(ord, dt) ==
    LET r == UpdateAnimals(animals, ord, random, dt, time + dt)
    IN  [i \in 1..Len(animals) |-> Behaviour(r[i])]

\* the number of creatures whose wander timer runs out in a frame of length dt
ExpiringIn(dt) == Cardinality({i \in 1..Len(animals) : animals[i].wanderTimer - dt <= 0})

\* C4 as stated: a frame gives every creature the same state whatever the
\* order the creatures are taken in.
C4_OrderIndependenceAsStated ==
    \A dt \in DtValues :
        LET inLoopOrder == FrameResult(LoopOrder(Len(animals)), dt)
        IN  \A ord \in Orders : FrameResult(ord, dt) = inLoopOrder

\* C4 as amended: a frame in which at most one wander timer runs out gives
\* every creature the same state whatever the order the creatures are taken in.
C4_OrderIndependence ==
    \A dt \in DtValues :
        ExpiringIn(dt) <= 1 =>
            LET inLoopOrder == FrameResult(LoopOrder(Len(animals)), dt)
            IN  \A ord \in Orders : FrameResult(ord, dt) = inLoopOrder

\* C4 witness: after a frame, a state of several creatures in which the next
\* frame makes exactly one timer run out
C4_Witness ==
    /\ frames >= 1 /\ Len(animals) >= 2
    /\ \E dt \in DtValues : ExpiringIn(dt) = 1

\* a creature lies within the spawn square on both horizontal axes
InsideBounds(c) == Abs(c.x) <= SPAWN_RADIUS /\ Abs(c.z) <= SPAWN_RADIUS

\* C9, the part that holds as stated: the timer of creature c, now c2, after a
\* frame of length dt, and the redrawn vertical velocity
C9_Timer(c, c2, dt) ==
    /\ c.wanderTimer - dt <= 0 =>
         /\ c2.wanderTimer >= 150 /\ c2.wanderTimer < 400
         /\ 100 * Abs(c2.vy) <= 30 * c.speed + 100 * 100 + 50
    /\ c.wanderTimer - dt > 0 => c2.wanderTimer = c.wanderTimer - dt
    /\ c2.wanderTimer > 0 /\ c2.wanderTimer <= 400

\* C9, the wander angle: changed by at most 1.5 when the timer runs out, kept
\* when it does not
C9_Angle(c, c2, dt) ==
    /\ c.wanderTimer - dt <= 0 =>
         /\ c2.wanderAngle - c.wanderAngle >= -150
         /\ c2.wanderAngle - c.wanderAngle <= 150
    /\ c.wanderTimer - dt > 0 => c2.wanderAngle = c.wanderAngle

\* C9 as stated: in every Update a creature whose timer runs out gets a timer
\* in [1.5, 4), a wander angle changed by at most 1.5 and a redrawn vertical
\* velocity; any other creature keeps its wander angle and has its timer
\* reduced by dt; every timer ends in (0, 4].
C9_WanderTimerAsStated ==
    [][frames' = frames + 1 =>
         \A i \in 1..Len(animals) :
             /\ C9_Timer(animals[i], animals'[i], deltaTime')
             /\ C9_Angle(animals[i], animals'[i], deltaTime')]_vars

\* C9 as amended: the same, the wander angle part for the creatures that lie
\* within +/-SPAWN_RADIUS on both axes when Update runs; the wander angle of
\* a creature beyond it ends as the boundary redirect sets it.
C9_WanderTimer ==
    [][frames' = frames + 1 =>
         \A i \in 1..Len(animals) :
             /\ C9_Timer(animals[i], animals'[i], deltaTime')
             /\ InsideBounds(animals[i]) =>
                    C9_Angle(animals[i], animals'[i], deltaTime')
             /\ ~InsideBounds(animals[i]) =>
                    animals'[i].wanderAngle \in {0, PI, PI \div 2, -(PI \div 2)}]_vars

\* C9 witness: after an Update, one creature holds a timer only a reset gives
\* (a spawn timer is below 3) and another creature a timer that ran down
C9_Witness ==
    /\ frames >= 1 /\ deltaTime > 0
    /\ \E i \in 1..Len(animals) :
           InsideBounds(animals[i]) /\ animals[i].wanderTimer >= 300
    /\ \E i \in 1..Len(animals) :
           animals[i].wanderTimer > 0 /\ animals[i].wanderTimer < 150

\* C10 as stated: after an Update the wander angle of a creature that was
\* beyond +/-SPAWN_RADIUS on an axis points back inwards along that axis, and
\* is PI for a creature that was beyond +SPAWN_RADIUS on x only.
C10_BoundaryRedirectAsStated ==
    [][frames' = frames + 1 =>
         \A i \in 1..Len(animals) :
             LET c == animals[i]
                 a == animals'[i].wanderAngle
             IN  /\ c.x > SPAWN_RADIUS => Cos(a) < 0
                 /\ c.x < -SPAWN_RADIUS => Cos(a) > 0
                 /\ c.z > SPAWN_RADIUS => Sin(a) < 0
                 /\ c.z < -SPAWN_RADIUS => Sin(a) > 0
                 /\ (c.x > SPAWN_RADIUS /\ Abs(c.z) <= SPAWN_RADIUS) => a = PI]_vars

\* C10 as amended: a creature beyond +/-SPAWN_RADIUS on z ends the Update
\* with wanderAngle -PI/2 (z > R) or PI/2 (z < -R), pointing back inwards
\* along z, whatever its x; a creature beyond on x only ends it with PI
\* (x > R) or 0 (x < -R), pointing back inwards along x.
C10_BoundaryRedirect ==
    [][frames' = frames + 1 =>
         \A i \in 1..Len(animals) :
             LET c == animals[i]
                 a == animals'[i].wanderAngle
             IN  /\ c.z > SPAWN_RADIUS => a = -(PI \div 2) /\ Sin(a) < 0
                 /\ c.z < -SPAWN_RADIUS => a = PI \div 2 /\ Sin(a) > 0
                 /\ (c.x > SPAWN_RADIUS /\ Abs(c.z) <= SPAWN_RADIUS) =>
                        a = PI /\ Cos(a) < 0
                 /\ (c.x < -SPAWN_RADIUS /\ Abs(c.z) <= SPAWN_RADIUS) =>
                        a = 0 /\ Cos(a) > 0]_vars

\* C10 witness: after two Updates a creature beyond the boundary on both
\* axes, redirected along z
C10_Witness ==
    /\ frames >= 2
    /\ \E i \in 1..Len(animals) :
           /\ animals[i].x > SPAWN_RADIUS /\ animals[i].z > SPAWN_RADIUS
           /\ animals[i].wanderAngle = -(PI \div 2)

\* every index of the geometry names a vertex of it
IndicesValid(g) == \A k \in 1..Len(g.indices) : g.indices[k] \in 0..(Len(g.vertices) - 1)

\* C8: every triangle mesh a geometry builder returns, for positive input
\* dimensions, has only valid vertex indices and a non-zero normal at every
\* vertex.
C8_MeshValidity ==
    /\ IndicesValid(geom)
    /\ \A v \in 1..Len(geom.normals) : geom.normals[v] # <<0, 0, 0>>

ValidDomain(gx, gz) ==
    /\ gx >= 0 /\ gx <= 2 * halfSize
    /\ gz >= 0 /\ gz <= 2 * halfSize

\* the steps after the floor step have run for creature c, now c2, in a frame
\* of length dt: the position moved by the velocity, the pitch set from it
StepsAfterFloor(c, c2, dt) ==
    /\ c2.x = c.x + Fix(c2.vx * dt, 100)
    /\ c2.y = c.y + Fix(c2.vy * dt, 100)
    /\ c2.z = c.z + Fix(c2.vz * dt, 100)
    /\ c2.rotX = Fix(Atan2(c2.vy, Sqrt(c2.vx * c2.vx + c2.vz * c2.vz)) * 3, 10)

\* velocity.y of creature c, now c2, is what the timer step and the ceiling
\* step of a frame of length dt set, the floor step having written nothing
VelocityYFromEarlierSteps(c, c2, dt) ==
    /\ (c.wanderTimer - dt > 0 /\ c.y <= -FISH_MIN_DEPTH) => c2.vy = c.vy
    /\ (c.wanderTimer - dt > 0 /\ c.y > -FISH_MIN_DEPTH) => c2.vy = -Abs(c.vy) - 50
    /\ (c.wanderTimer - dt <= 0 /\ c.y <= -FISH_MIN_DEPTH) =>
           100 * Abs(c2.vy) <= 30 * c.speed + 50
    /\ (c.wanderTimer - dt <= 0 /\ c.y > -FISH_MIN_DEPTH) => c2.vy <= -50

\* C11: in every Update, SampleHeight is called for a creature only with
\* both shifted coordinates pos.x + halfSize and pos.z + halfSize inside the
\* valid domain [0, 2 * halfSize]; for a creature outside that domain the call
\* is skipped, velocity.y stays as the earlier steps set it, and integration
\* and orientation still run for that creature and for every other creature
\* of the pass.
C11_DomainGuard ==
    [][frames' = frames + 1 =>
         /\ Len(animals') = Len(animals)
         /\ Len(sampled') = Len(animals)
         /\ \A i \in 1..Len(animals) :
                LET c == animals[i]
                    c2 == animals'[i]
                    gx == c.x + halfSize
                    gz == c.z + halfSize
                IN  /\ sampled'[i] # <<>> =>
                           sampled'[i] = <<gx, gz>> /\ ValidDomain(gx, gz)
                    /\ ~ValidDomain(gx, gz) =>
                           /\ sampled'[i] = <<>>
                           /\ VelocityYFromEarlierSteps(c, c2, deltaTime')
                    /\ StepsAfterFloor(c, c2, deltaTime')]_vars

\* C11 witness: an Update of a positive frame length has skipped the call for
\* a creature and made it for a later creature, and the skipped creature has
\* moved on
C11_Witness ==
    /\ frames >= 1 /\ deltaTime > 0
    /\ \E i, j \in 1..Len(sampled) :
           /\ i < j
           /\ sampled[i] = <<>> /\ sampled[j] # <<>>
           /\ animals[i].x > SPAWN_RADIUS
           /\ animals[i].vx # 0

====
